---- MODULE Spec2Model ----
(***************************************************************************)
(* The ZettlrRenderer controller (source/renderer/zettlr-renderer.js):     *)
(* the message router handleEvent, the path tree with its lookup, the      *)
(* current file / current directory pointers and the sequential loading of *)
(* the spell-check dictionaries.                                           *)
(*                                                                         *)
(* JavaScript values are represented as follows.                           *)
(*   null             the record Null                                      *)
(*   a string of data Text(ws), ws the sequence of its words; the empty    *)
(*                    string Text(<<>>) is falsy like null                 *)
(*   an object        a record; hasOwnProperty is membership in DOMAIN     *)
(*   an object used as an insertion-ordered map (typoLang, the typo-lang   *)
(*                    payload): the sequence of its entries in key order   *)
(*   a thrown TypeError: the record TypeError as a result, and the flag    *)
(*                    last.raised of the handler that let it escape        *)
(***************************************************************************)
EXTENDS Integers, Sequences, FiniteSets, TLC

VARIABLES
    currentFile,  \* this.currentFile
    currentDir,   \* this.currentDir
    paths,        \* this.paths
    typoReady,    \* this.typoReady
    typoLang,     \* this.typoLang, entries [lang, ready] in insertion order
    typoAff,      \* this.typoAff
    typoDic,      \* this.typoDic
    typo,         \* this.typo, the list of Typo instances
    initialised,  \* init() has run
    sent,         \* the typo-request-* messages given to ipc.send, oldest first
    answered,     \* how many of them the host has answered
    bodyLangs,    \* [langs |-> the payload given to body.setSpellcheckLangs]
    fileInTree,   \* this.currentFile is the very object of a node of this.paths
    dirInTree,    \* this.currentDir is the very object of a node of this.paths
    darkTheme,    \* the theme the collaborators show, after their toggleTheme()
    snippets,     \* the preview shows snippets, after its toggleSnippets()
    appLang,      \* this.lang
    pandoc,       \* this.pandoc
    pdflatex,     \* this.pdflatex
    configToggled,\* the config keys whose message has toggled the interface
    last          \* the last call handled: message, outcome, what it sent and
                  \* notified, pointers before it

vars == <<currentFile, currentDir, paths, typoReady, typoLang, typoAff, typoDic,
          typo, initialised, sent, answered, bodyLangs, fileInTree, dirInTree,
          darkTheme, snippets, appLang, pandoc, pdflatex, configToggled, last>>

session  == <<currentFile, currentDir, paths, fileInTree, dirInTree>>
ui       == <<darkTheme, snippets, appLang, pandoc, pdflatex, configToggled>>
pipeline == <<typoReady, typoLang, typoAff, typoDic, typo>>
channel  == <<initialised, sent, answered, bodyLangs>>

----------------------------------------------------------------------------
(* Bounds and input domains *)

MaxSent     == 3   \* typo-request-* messages emitted in a run of SpecAny
MaxCheckers == 2   \* Typo instances built in a run of SpecAny

Null      == [null |-> TRUE]
TypeError == [exception |-> "TypeError"]
Text(ws)  == [text |-> ws]

Truthy(v) == v # Null /\ v # Text(<<>>)

NoLang == "null"   \* what null becomes as a property key and in a message text
Langs  == {"en_US", "de_DE", "fr_FR"}
Words  == {"color", "farbe", "colr"}

AffData == {Text(<<>>), Text(<<"SFX">>)}
DicData == {Text(<<>>), Text(<<"color">>), Text(<<"farbe">>)}

Range(s) == {s[i] : i \in DOMAIN s}

\* typo-lang payloads, entries in the order of the object's keys (language
\* tags are not array indices, so the key order is the insertion order)
Entry(l, f) == [lang |-> l, flag |-> f]
LangPayloads ==
    { <<>>,
      <<Entry("en_US", FALSE)>>,
      <<Entry("fr_FR", FALSE), Entry("de_DE", FALSE)>>,
      <<Entry("en_US", TRUE)>>,
      <<Entry("de_DE", FALSE), Entry("en_US", TRUE)>>,
      <<Entry("en_US", TRUE), Entry("de_DE", TRUE)>>,
      <<Entry("de_DE", TRUE), Entry("en_US", TRUE)>>,
      <<Entry("en_US", TRUE), Entry("fr_FR", FALSE), Entry("de_DE", TRUE)>> }

----------------------------------------------------------------------------
(* Path trees.  A directory has children, a file has none; the root has no *)
(* type.  TreeD carries one identifier twice (a collision of the hashes).  *)

File(h, n)     == [hash |-> h, name |-> n, type |-> "file"]
Dir(h, n, cs)  == [hash |-> h, name |-> n, type |-> "directory", children |-> cs]
Root(h, cs)    == [hash |-> h, name |-> "root", children |-> cs]

TreeA == Root(1, <<>>)
TreeB == Root(1, <<Dir(2, "notes", <<File(3, "a.md")>>), File(4, "b.md")>>)
TreeC == Root(1, <<File(4, "b.md"), Dir(2, "notes", <<>>)>>)
TreeD == Root(5, <<Dir(2, "notes", <<File(3, "a.md")>>), File(3, "c.md")>>)

Trees  == {TreeA, TreeB, TreeC, TreeD}
Hashes == 1 .. 5

HasOwnProperty(obj, p) == p \in DOMAIN obj

\* The nodes of a tree, parents before children, children left to right
RECURSIVE Preorder(_)
RECURSIVE PreorderAll(_)
Preorder(node) ==
    <<node>> \o (IF HasOwnProperty(node, "children")
                 THEN PreorderAll(node.children) ELSE <<>>)
PreorderAll(nodes) ==
    IF nodes = <<>> THEN <<>>
    ELSE Preorder(Head(nodes)) \o PreorderAll(Tail(nodes))

NodesOf(tree) == Range(Preorder(tree))
AllNodes  == UNION {NodesOf(t) : t \in Trees}
FileNodes == {n \in AllNodes : HasOwnProperty(n, "type") /\ n.type = "file"}
DirNodes  == AllNodes \ FileNodes

----------------------------------------------------------------------------
(* findObject(hash, obj = this.paths) *)

RECURSIVE findObject(_, _)
RECURSIVE findInChildren(_, _, _)

findObject(hash, obj) ==
    IF obj = Null THEN TypeError   \* obj.hash of null
    ELSE IF obj.hash = hash THEN obj
    ELSE IF HasOwnProperty(obj, "children")
         THEN findInChildren(hash, obj.children, 1)
    ELSE Null

\* for(let c of obj.children), from the i-th child on
findInChildren(hash, children, i) ==
    IF i > Len(children) THEN Null
    ELSE LET ret == findObject(hash, children[i])
         IN  IF ret # Null THEN ret
             ELSE findInChildren(hash, children, i + 1)

----------------------------------------------------------------------------
(* The language map this.typoLang, an object used as an ordered map *)

LangEntry(l, r) == [lang |-> l, ready |-> r]

HasKey(map, k) == \E i \in DOMAIN map : map[i].lang = k

\* map[k] = v: an existing key keeps its place, a new key goes last
SetKey(map, k, v) ==
    IF HasKey(map, k)
    THEN [i \in DOMAIN map |-> IF map[i].lang = k THEN LangEntry(k, v) ELSE map[i]]
    ELSE Append(map, LangEntry(k, v))

\* FirstNotReady without the break: the last language not ready wins
LastNotReady(map) ==
    IF \E i \in DOMAIN map : ~map[i].ready
    THEN map[CHOOSE i \in DOMAIN map :
                 ~map[i].ready /\ \A j \in DOMAIN map : ~map[j].ready => j <= i].lang
    ELSE NoLang

\* for(let l in map) { if(!map[l]) { lang = l; break; } }, null when none
FirstNotReady(map) ==
    IF \E i \in DOMAIN map : ~map[i].ready
    THEN map[CHOOSE i \in DOMAIN map :
                 ~map[i].ready /\ \A j \in DOMAIN map : ~map[j].ready => i <= j].lang
    ELSE NoLang

AllReady(map) == \A i \in DOMAIN map : map[i].ready

\* for(let prop in langs) { if(langs[prop]) { this.typoLang[prop] = false; } }
RECURSIVE InsertRequested(_, _)
InsertRequested(map, langs) ==
    IF langs = <<>> THEN map
    ELSE InsertRequested(
             IF Head(langs).flag THEN SetKey(map, Head(langs).lang, FALSE) ELSE map,
             Tail(langs))

Request(type, lang) == [type |-> type, lang |-> lang]

\* requestLang(type): the message it gives to ipc.send
requestLang(type, map) == Request(type, FirstNotReady(map))

\* new Typo(lang, aff, dic) and its two queries, an opaque capability: a
\* checker accepts the words of its dictionary and suggests them otherwise
Typo(lang, aff, dic) == [lang |-> lang, aff |-> aff, dic |-> dic]
check(checker, word)   == word \in Range(checker.dic.text)
suggest(checker, word) == IF check(checker, word) THEN <<>> ELSE checker.dic.text

----------------------------------------------------------------------------
(* typoCheck(word) and typoSuggest(word) *)

RECURSIVE typoCheckFrom(_, _)
typoCheckFrom(word, i) ==
    IF i > Len(typo) THEN FALSE
    ELSE IF check(typo[i], word) THEN TRUE
    ELSE typoCheckFrom(word, i + 1)

\* typoCheck asking the first checker only
typoCheckFirstOnly(word) ==
    IF ~typoReady THEN TRUE
    ELSE typo # <<>> /\ check(typo[1], word)

typoCheck(word) ==
    IF ~typoReady THEN TRUE
    ELSE typoCheckFrom(word, 1)

RECURSIVE typoSuggestFrom(_, _, _)
typoSuggestFrom(word, i, ret) ==
    IF i > Len(typo) THEN ret
    ELSE typoSuggestFrom(word, i + 1, ret \o suggest(typo[i], word))

\* typoSuggest with ret = lang.suggest(word): the last checker's answer only
typoSuggestLastOnly(word) ==
    IF ~typoReady \/ typo = <<>> THEN <<>>
    ELSE suggest(typo[Len(typo)], word)

typoSuggest(word) ==
    IF ~typoReady THEN <<>>
    ELSE typoSuggestFrom(word, 1, <<>>)

----------------------------------------------------------------------------
(* The record of the last call *)

\* {} : an object without properties
EmptyObject == <<>>

\* ipc.send(channel, arg); arg is Null when the call gives none
Message(chan, arg) == [channel |-> chan, arg |-> arg]

\* a call of a collaborator that displays the tree, with what it can read
\* through the renderer at that moment
Notice(who, tree, file, dir) ==
    [to |-> who, paths |-> tree, currentFile |-> file, currentDir |-> dir]

\* a call that sent out and notified notes
Outcome(command, content, raised, out, notes) ==
    [command |-> command, content |-> content, raised |-> raised,
     out |-> out, notes |-> notes]

\* a call that sent and notified nothing
Handled(command, content, raised) ==
    Outcome(command, content, raised, <<>>, <<>>)

\* a tree replacement also records the pointers it re-resolved
Resynced(command, content, notes) ==
    [command |-> command, content |-> content, raised |-> FALSE,
     out |-> <<>>, notes |-> notes,
     file |-> currentFile, dir |-> currentDir]

\* the typo-request-* messages as given to ipc.send
RequestMessages(requests) ==
    [i \in DOMAIN requests |->
        Message("typo-request-" \o requests[i].type, requests[i].lang)]

\* the host's bookkeeping: a response answers the oldest unanswered request
\* when that request is of its type
Answers(type) ==
    IF answered < Len(sent) /\ sent[answered + 1].type = type
    THEN answered + 1 ELSE answered

----------------------------------------------------------------------------
(* State after construction, and init() *)

Init ==
    /\ currentFile = Null
    /\ currentDir = Null
    /\ paths = Null
    /\ typoReady = FALSE
    /\ typoLang = <<>>
    /\ typoAff = Null
    /\ typoDic = Null
    /\ typo = <<>>
    /\ initialised = FALSE
    /\ sent = <<>>
    /\ answered = 0
    /\ bodyLangs = Null
    /\ fileInTree = FALSE
    /\ dirInTree = FALSE
    /\ darkTheme = FALSE
    /\ snippets = TRUE
    /\ appLang = "en_US"
    /\ pandoc = FALSE
    /\ pdflatex = FALSE
    /\ configToggled = {}
    /\ last = Outcome("constructor", Null, FALSE, <<>>, <<>>)

\* init(): of its requests, the one for the spell-check languages is kept
RendererInit ==
    /\ ~initialised
    /\ initialised' = TRUE
    /\ sent' = Append(sent, Request("lang", NoLang))
    /\ last' = Outcome("init", Null, FALSE,
                        <<Message("config-get", "darkTheme"),
                          Message("config-get", "snippets"),
                          Message("config-get", "app_lang"),
                          Message("config-get-env", "pandoc"),
                          Message("config-get-env", "pdflatex"),
                          Message("get-paths", EmptyObject),
                          Message("typo-request-lang", EmptyObject)>>, <<>>)
    /\ UNCHANGED <<session, pipeline, answered, bodyLangs, ui>>

----------------------------------------------------------------------------
(* handleEvent: the tree and the current file / directory *)

\* case 'paths': the collaborators are called after the three assignments
pathsNotices(content) ==
    <<Notice("directories.refresh", content, Null, content),
      Notice("preview.refresh", content, Null, content),
      Notice("directories.select", content, Null, content)>>

\* case 'paths' without the call this.setCurrentFile(null)
PathsKeepsFile(content) ==
    /\ currentDir' = content
    /\ paths' = content
    /\ dirInTree' = TRUE
    /\ fileInTree' = FALSE
    /\ last' = Resynced("paths", content,
                        <<Notice("directories.refresh", content, currentFile, content),
                          Notice("preview.refresh", content, currentFile, content),
                          Notice("directories.select", content, currentFile, content)>>)
    /\ UNCHANGED <<currentFile, pipeline, channel, ui>>

\* case 'paths': this.paths and this.currentDir are the same object
Paths(content) ==
    /\ currentDir' = content
    /\ currentFile' = Null
    /\ paths' = content
    /\ dirInTree' = TRUE
    /\ fileInTree' = FALSE
    /\ last' = Resynced("paths", content, pathsNotices(content))
    /\ UNCHANGED <<pipeline, channel, ui>>

\* updatePaths looking the identifiers up before it installs the new tree
updatePathsStale(nData) ==
    [paths       |-> nData,
     currentDir  |-> IF currentDir # Null
                     THEN findObject(currentDir.hash, paths) ELSE nData,
     currentFile |-> IF currentFile # Null
                     THEN findObject(currentFile.hash, paths) ELSE currentFile]

\* updatePaths(nData): the three fields as it leaves them
updatePaths(nData) ==
    [paths       |-> nData,
     currentDir  |-> IF currentDir # Null
                     THEN findObject(currentDir.hash, nData) ELSE nData,
     currentFile |-> IF currentFile # Null
                     THEN findObject(currentFile.hash, nData) ELSE currentFile]

\* case 'paths-update' with the collaborators called before updatePaths
updateNoticesEarly(content) ==
    <<Notice("directories.refresh", paths, currentFile, currentDir),
      Notice("preview.refresh", paths, currentFile, currentDir)>>

\* case 'paths-update': the collaborators are called after updatePaths
updateNotices(content) ==
    LET r == updatePaths(content) IN
    <<Notice("directories.refresh", r.paths, r.currentFile, r.currentDir),
      Notice("preview.refresh", r.paths, r.currentFile, r.currentDir)>>

\* case 'paths-update': what findObject returns is an object of the new tree
PathsUpdate(content) ==
    LET r == updatePaths(content) IN
    /\ paths' = r.paths
    /\ currentDir' = r.currentDir
    /\ currentFile' = r.currentFile
    /\ dirInTree' = (r.currentDir # Null)
    /\ fileInTree' = (r.currentFile # Null)
    /\ last' = Resynced("paths-update", content, updateNotices(content))
    /\ UNCHANGED <<pipeline, channel, ui>>

\* case 'dir-set-current'
DirSetCurrent(content) ==
    /\ currentDir' = content
    /\ dirInTree' = FALSE
    /\ last' = Outcome("dir-set-current", content, FALSE, <<>>,
                       <<Notice("directories.select", paths, currentFile, content),
                         Notice("preview.refresh", paths, currentFile, content)>>)
    /\ UNCHANGED <<currentFile, paths, fileInTree, pipeline, channel, ui>>

\* case 'file-set-current': arg.content.hash is read after the assignment
FileSetCurrent(content) ==
    /\ currentFile' = content
    /\ fileInTree' = FALSE
    /\ last' = Handled("file-set-current", content, content = Null)
    /\ UNCHANGED <<currentDir, paths, dirInTree, pipeline, channel, ui>>

\* case 'file-open'
FileOpen(content) ==
    /\ currentFile' = content
    /\ fileInTree' = FALSE
    /\ last' = Handled("file-open", content, content = Null)
    /\ UNCHANGED <<currentDir, paths, dirInTree, pipeline, channel, ui>>

\* case 'file-close', were it to drop the pending spell-check data as well
FileCloseClearsPending ==
    /\ currentFile' = Null
    /\ fileInTree' = FALSE
    /\ typoAff' = Null
    /\ typoDic' = Null
    /\ last' = Handled("file-close", Null, FALSE)
    /\ UNCHANGED <<currentDir, paths, dirInTree, typoReady, typoLang, typo,
                   channel, ui>>

\* case 'file-close'
FileClose ==
    /\ currentFile' = Null
    /\ fileInTree' = FALSE
    /\ last' = Handled("file-close", Null, FALSE)
    /\ UNCHANGED <<currentDir, paths, dirInTree, pipeline, channel, ui>>

----------------------------------------------------------------------------
(* handleEvent: spell checking *)

\* setSpellcheck asking for the affix of every language at once
setSpellcheckAll(langs) ==
    LET map == InsertRequested(typoLang, langs) IN
    [typoLang |-> map,
     requests |-> [i \in DOMAIN map |-> Request("aff", map[i].lang)]]

\* setSpellcheck(langs): the language map as it leaves it, and what it sends
setSpellcheck(langs) ==
    LET map == InsertRequested(typoLang, langs) IN
    [typoLang |-> map,
     requests |-> IF Len(map) > 0 THEN <<requestLang("aff", map)>> ELSE <<>>]

\* case 'typo-lang'
TypoLang(content) ==
    LET r == setSpellcheck(content) IN
    /\ typoLang' = r.typoLang
    /\ sent' = sent \o r.requests
    /\ answered' = Answers("lang")
    /\ bodyLangs' = [langs |-> content]
    /\ last' = Outcome("typo-lang", content, FALSE, RequestMessages(r.requests), <<>>)
    /\ UNCHANGED <<session, ui, typoReady, typoAff, typoDic, typo, initialised>>

\* case 'typo-aff'
TypoAff(content) ==
    /\ typoAff' = content
    /\ sent' = Append(sent, requestLang("dic", typoLang))
    /\ answered' = Answers("aff")
    /\ last' = Outcome("typo-aff", content, FALSE,
                        RequestMessages(<<requestLang("dic", typoLang)>>), <<>>)
    /\ UNCHANGED <<session, ui, typoReady, typoLang, typoDic, typo, initialised,
                   bodyLangs>>

\* initTypo(), entered with this.typoDic = dic: the fields as it leaves them
\* and what it sends.  Its first guard, !this.typoLang, never holds: the map
\* is an object.  With every language ready the loop leaves lang = null and
\* the assignment this.typoLang[lang] = true creates the key "null".
initTypo(dic) ==
    IF ~Truthy(typoAff) \/ ~Truthy(dic)
    THEN [typoReady |-> typoReady, typoLang |-> typoLang, typoAff |-> typoAff,
          typoDic |-> dic, typo |-> typo, requests |-> <<>>]
    ELSE LET lang == FirstNotReady(typoLang)
             map  == SetKey(typoLang, lang, TRUE)
             done == AllReady(map)
         IN  [typoReady |-> IF done THEN TRUE ELSE typoReady,
              typoLang  |-> map,
              typoAff   |-> Null,
              typoDic   |-> Null,
              typo      |-> Append(typo, Typo(lang, typoAff, dic)),
              requests  |-> IF done THEN <<>> ELSE <<requestLang("aff", map)>>]

\* case 'typo-dic'
TypoDic(content) ==
    LET r == initTypo(content) IN
    /\ typoReady' = r.typoReady
    /\ typoLang' = r.typoLang
    /\ typoAff' = r.typoAff
    /\ typoDic' = r.typoDic
    /\ typo' = r.typo
    /\ sent' = sent \o r.requests
    /\ answered' = Answers("dic")
    /\ last' = Outcome("typo-dic", content, FALSE, RequestMessages(r.requests), <<>>)
    /\ UNCHANGED <<session, ui, initialised, bodyLangs>>

----------------------------------------------------------------------------
(* handleEvent: commands that only reach the interface collaborators *)

ForwardedCommands == {"dir-find", "file-find", "zoom-in"}

Forwarded(command) ==
    /\ last' = Handled(command, Null, FALSE)
    /\ UNCHANGED <<session, pipeline, channel, ui>>

----------------------------------------------------------------------------
(* handleEvent: commands that carry an optional identifier *)

\* the identifiers sent with a command: one of a file, one of no node
IdHashes == {3, 5}

\* { hash: h }, {} and no content at all
IdPayloads == {[hash |-> h] : h \in IdHashes} \cup {EmptyObject, Null}

\* arg.content.hasOwnProperty('hash'), which raises a TypeError when
\* arg.content is null
hasHash(content) == HasOwnProperty(content, "hash")

\* case 'dir-rename': this.getCurrentDir().parent.hasOwnProperty('type')
\* raises a TypeError when the directory object has no parent property
DirRename(content) ==
    /\ last' = Handled("dir-rename", content,
                       IF content = Null THEN TRUE
                       ELSE IF hasHash(content)
                            THEN findObject(content.hash, paths) = TypeError
                       ELSE IF currentDir # Null
                            THEN ~HasOwnProperty(currentDir, "parent")
                       ELSE FALSE)
    /\ UNCHANGED <<session, pipeline, channel, ui>>

\* case 'dir-new': the else branch hands over the current directory as it is
DirNew(content) ==
    /\ last' = Handled("dir-new", content,
                       IF content = Null THEN TRUE
                       ELSE IF hasHash(content)
                            THEN findObject(content.hash, paths) = TypeError
                       ELSE FALSE)
    /\ UNCHANGED <<session, pipeline, channel, ui>>

\* case 'dir-delete' and case 'file-delete': the identifier is sent on
deleteMessage(command, content) ==
    IF content = Null THEN <<>>
    ELSE IF hasHash(content)
         THEN <<Message(command, [hash |-> content.hash])>>
    ELSE <<Message(command, EmptyObject)>>

\* case 'dir-delete'
DirDelete(content) ==
    /\ last' = Outcome("dir-delete", content, content = Null,
                       deleteMessage("dir-delete", content), <<>>)
    /\ UNCHANGED <<session, pipeline, channel, ui>>

\* case 'file-rename'
FileRename(content) ==
    /\ last' = Handled("file-rename", content,
                       IF content = Null THEN TRUE
                       ELSE IF hasHash(content)
                            THEN findObject(content.hash, paths) = TypeError
                       ELSE FALSE)
    /\ UNCHANGED <<session, pipeline, channel, ui>>

\* case 'file-new': the only case that tests arg.content != null
FileNew(content) ==
    /\ last' = Handled("file-new", content,
                       IF content # Null /\ hasHash(content)
                       THEN findObject(content.hash, paths) = TypeError
                       ELSE FALSE)
    /\ UNCHANGED <<session, pipeline, channel, ui>>

\* case 'file-delete'
FileDelete(content) ==
    /\ last' = Outcome("file-delete", content, content = Null,
                       deleteMessage("file-delete", content), <<>>)
    /\ UNCHANGED <<session, pipeline, channel, ui>>

\* case 'dir-open'
DirOpen ==
    /\ last' = Outcome("dir-open", Null, FALSE,
                       <<Message("dir-open", EmptyObject)>>, <<>>)
    /\ UNCHANGED <<session, pipeline, channel, ui>>

\* the commands with an optional identifier
IdMessage ==
    \E content \in IdPayloads :
        \/ DirRename(content)
        \/ DirNew(content)
        \/ DirDelete(content)
        \/ FileRename(content)
        \/ FileNew(content)
        \/ FileDelete(content)

----------------------------------------------------------------------------
(* handleEvent: file-save *)

\* what this.editor.getValue() returns; getWrittenWords() counts its words
EditorValues == {Text(<<>>), Text(<<"color">>)}

\* file.content = value; file.wordcount = words: the object with both
\* properties set
withContent(file, value) ==
    [p \in DOMAIN file \cup {"content", "wordcount"} |->
        IF p = "content" THEN value
        ELSE IF p = "wordcount" THEN Len(value.text)
        ELSE file[p]]

\* a tree in which the object findObject(hash) returns has become node:
\* an assignment to a property of that object is seen through the tree
RECURSIVE assigned(_, _, _), assignedInChildren(_, _, _, _)
assigned(obj, hash, node) ==
    IF obj.hash = hash THEN node
    ELSE IF HasOwnProperty(obj, "children")
         THEN [obj EXCEPT !.children = assignedInChildren(@, hash, node, 1)]
    ELSE obj

assignedInChildren(children, hash, node, i) ==
    IF i > Len(children) THEN children
    ELSE IF findObject(hash, children[i]) # Null
         THEN [children EXCEPT ![i] = assigned(@, hash, node)]
    ELSE assignedInChildren(children, hash, node, i + 1)

\* case 'file-save': file is the object this.currentFile refers to, so the
\* two assignments change the current file and, when that object is a node
\* of this.paths, the tree and what the current directory shows of it
FileSave(value) ==
    LET file == IF currentFile = Null
                THEN withContent(EmptyObject, value)
                ELSE withContent(currentFile, value)
        tree == IF fileInTree THEN assigned(paths, currentFile.hash, file)
                ELSE paths
    IN  /\ currentFile' = IF currentFile = Null THEN Null ELSE file
        /\ paths' = tree
        /\ currentDir' = IF dirInTree
                          THEN findObject(currentDir.hash, tree)
                          ELSE currentDir
        /\ last' = Outcome("file-save", Null, FALSE,
                           <<Message("file-save", file)>>, <<>>)
        /\ UNCHANGED <<fileInTree, dirInTree, pipeline, channel, ui>>

----------------------------------------------------------------------------
(* handleEvent: config and the toggles *)

\* { key, value } with a flag as the main process sends them, and a key
\* without a case
ConfigFlags ==
    {[key |-> k, value |-> v] :
        k \in {"darkTheme", "snippets", "pandoc", "pdflatex", "debug"},
        v \in BOOLEAN}

\* { key: 'app_lang', value }
ConfigLangs == {[key |-> "app_lang", value |-> l] : l \in {"en_US", "de_DE"}}

\* case 'config': the five toggleTheme() calls switch the theme shown, and
\* toggleSnippets() the snippet display, each time the case runs
Config(content) ==
    /\ darkTheme' = IF content.key = "darkTheme" /\ content.value = TRUE
                     THEN ~darkTheme ELSE darkTheme
    /\ snippets' = IF content.key = "snippets" /\ ~content.value
                    THEN ~snippets ELSE snippets
    /\ appLang' = IF content.key = "app_lang" THEN content.value ELSE appLang
    /\ pandoc' = IF content.key = "pandoc" THEN content.value ELSE pandoc
    /\ pdflatex' = IF content.key = "pdflatex" THEN content.value ELSE pdflatex
    /\ configToggled' =
         IF darkTheme' # darkTheme \/ snippets' # snippets
         THEN configToggled \cup {content.key} ELSE configToggled
    /\ last' = Handled("config", content, FALSE)
    /\ UNCHANGED <<session, pipeline, channel>>

\* the marker that suppresses the echo to the main process
NoEmit == Text(<<"no-emit">>)

\* case 'toggle-theme'
ToggleTheme(content) ==
    /\ darkTheme' = ~darkTheme
    /\ last' = Outcome("toggle-theme", content, FALSE,
                       IF content # NoEmit
                       THEN <<Message("toggle-theme", Null)>> ELSE <<>>, <<>>)
    /\ UNCHANGED <<session, pipeline, channel, snippets, appLang, pandoc,
                   pdflatex, configToggled>>

\* case 'toggle-snippets'
ToggleSnippets(content) ==
    /\ snippets' = ~snippets
    /\ last' = Outcome("toggle-snippets", content, FALSE,
                       IF content # NoEmit
                       THEN <<Message("toggle-snippets", Null)>> ELSE <<>>, <<>>)
    /\ UNCHANGED <<session, pipeline, channel, darkTheme, appLang, pandoc,
                   pdflatex, configToggled>>

\* the config messages that toggle
ToggleConfigs ==
    {[key |-> "darkTheme", value |-> TRUE], [key |-> "snippets", value |-> FALSE]}

----------------------------------------------------------------------------
(* handleEvent: the other cases *)

\* case 'file-insert'
FileInsert ==
    /\ last' = Outcome("file-insert", Null, FALSE, <<>>,
                       <<Notice("preview.refresh", paths, currentFile, currentDir)>>)
    /\ UNCHANGED <<session, pipeline, channel, ui>>

\* case 'open-preferences'
OpenPreferences ==
    /\ last' = Outcome("open-preferences", Null, FALSE,
                       <<Message("get-preferences", EmptyObject)>>, <<>>)
    /\ UNCHANGED <<session, pipeline, channel, ui>>

\* case 'quicklook'
Quicklook(content) ==
    /\ last' = Outcome("quicklook", content, content = Null,
                       IF content = Null THEN <<>>
                       ELSE <<Message("file-get-quicklook", content.hash)>>, <<>>)
    /\ UNCHANGED <<session, pipeline, channel, ui>>

\* the cases that call interface collaborators and nothing else
CollaboratorCommands ==
    ForwardedCommands \cup
    {"file-search-result", "toggle-directories", "toggle-preview", "export",
     "preferences", "cm-command", "file-quicklook", "notify", "pomodoro",
     "zoom-reset", "zoom-out"}

\* the case labels of the switch
Commands ==
    CollaboratorCommands \cup
    {"paths", "paths-update", "dir-set-current", "dir-open", "dir-rename",
     "dir-new", "dir-delete", "file-set-current", "file-open", "file-close",
     "file-save", "file-rename", "file-new", "file-insert", "file-delete",
     "toggle-theme", "toggle-snippets", "open-preferences", "config",
     "typo-lang", "typo-aff", "typo-dic", "quicklook"}

----------------------------------------------------------------------------
(* handleEvent: the default case *)

\* tags that are no case label of the switch
UnknownCommands == {"file-export", "typo-ready"}

\* default, were it to fall into the file-close case
UnknownCloses(command, content) ==
    /\ currentFile' = Null
    /\ fileInTree' = FALSE
    /\ last' = Handled(command, content, FALSE)
    /\ UNCHANGED <<currentDir, paths, dirInTree, pipeline, channel, ui>>

\* default: console.log only
Unknown(command, content) ==
    /\ last' = Handled(command, content, FALSE)
    /\ UNCHANGED <<session, pipeline, channel, ui>>

----------------------------------------------------------------------------
(* Specifications *)

\* A message about the tree or the current file / directory
SessionMessage ==
    \/ \E t \in Trees : Paths(t)
    \/ \E t \in Trees : PathsUpdate(t)
    \/ \E n \in DirNodes : DirSetCurrent(n)
    \/ \E n \in FileNodes \cup {Null} : FileSetCurrent(n)
    \/ \E n \in FileNodes \cup {Null} : FileOpen(n)
    \/ FileClose
    \/ \E c \in ForwardedCommands : Forwarded(c)

\* A spell-check message, whatever the pipeline awaits
SpellcheckMessage ==
    \/ \E p \in LangPayloads : TypoLang(p)
    \/ \E d \in AffData : TypoAff(d)
    \/ \E d \in DicData : TypoDic(d)

Bounded == Len(sent') <= MaxSent /\ Len(typo') <= MaxCheckers

\* The renderer with a host that sends spell-check messages only as answers:
\* the languages when asked for them, an affix or a dictionary when asked for
\* one; the other messages come at any time
HostAnswer ==
    /\ answered < Len(sent)
    /\ LET req == sent[answered + 1] IN
       \/ req.type = "lang" /\ \E p \in LangPayloads : TypoLang(p)
       \/ req.type = "aff" /\ \E d \in AffData : TypoAff(d)
       \/ req.type = "dic" /\ \E d \in DicData : TypoDic(d)

Next ==
    \/ RendererInit
    \/ SessionMessage
    \/ HostAnswer

Spec == Init /\ [][Next]_vars

\* The renderer with a host that sends spell-check messages at any time,
\* asked for or not, up to the bounds
NextAny ==
    \/ RendererInit
    \/ \E c \in ForwardedCommands : Forwarded(c)
    \/ SpellcheckMessage /\ Bounded

SpecAny == Init /\ [][NextAny]_vars

\* The renderer with a host that answers every request it is sent: the main
\* process replies to each typo-request-* message, so a pending answer is
\* eventually delivered
NextFair ==
    \/ RendererInit
    \/ HostAnswer
    \/ \E c \in ForwardedCommands : Forwarded(c)

SpecFair == Init /\ [][NextFair]_vars /\ WF_vars(HostAnswer)

\* The renderer with a host that sends every command: a tree and a file,
\* the commands about them, and well-formed answers to the spell-check
\* requests
TagsHost ==
    /\ answered < Len(sent)
    /\ LET req == sent[answered + 1] IN
       \/ req.type = "lang" /\ TypoLang(<<Entry("en_US", TRUE)>>)
       \/ req.type = "aff" /\ TypoAff(Text(<<"SFX">>))
       \/ req.type = "dic" /\ TypoDic(Text(<<"color">>))

NextTags ==
    \/ RendererInit
    \/ TagsHost
    \/ Paths(TreeB)
    \/ PathsUpdate(TreeC)
    \/ DirSetCurrent(TreeB.children[1])
    \/ \E n \in {TreeB.children[2], Null} : FileSetCurrent(n)
    \/ \E n \in {TreeB.children[2], Null} : FileOpen(n)
    \/ FileClose
    \/ IdMessage
    \/ DirOpen
    \/ \E v \in EditorValues : FileSave(v)
    \/ \E c \in ToggleConfigs : Config(c)
    \/ \E c \in {Null, NoEmit} : ToggleTheme(c)
    \/ \E c \in {Null, NoEmit} : ToggleSnippets(c)
    \/ FileInsert
    \/ OpenPreferences
    \/ \E h \in IdHashes : Quicklook([hash |-> h])
    \/ \E c \in CollaboratorCommands : Forwarded(c)
    \/ \E c \in UnknownCommands : Unknown(c, Null)

SpecTags == Init /\ [][NextTags]_vars

\* The renderer with a host that sends configuration and toggle commands at
\* any time
NextUi ==
    \/ RendererInit
    \/ \E c \in ConfigFlags : Config(c)
    \/ \E c \in ConfigLangs : Config(c)
    \/ \E c \in {Null, NoEmit} : ToggleTheme(c)
    \/ \E c \in {Null, NoEmit} : ToggleSnippets(c)
    \/ \E c \in ForwardedCommands : Forwarded(c)

SpecUi == Init /\ [][NextUi]_vars

----------------------------------------------------------------------------
(* Vocabulary of the properties *)

\* the affix and dictionary requests emitted so far, oldest first
SpellRequests == SelectSeq(sent, LAMBDA r : r.type # "lang")

\* the positions in sent of the affix and dictionary requests not yet answered
Outstanding == {i \in DOMAIN sent : i > answered /\ sent[i].type # "lang"}

\* the type of the oldest such request
Awaiting ==
    IF Outstanding = {} THEN "none"
    ELSE sent[CHOOSE i \in Outstanding : \A j \in Outstanding : i <= j].type

Idle == ~typoReady /\ typoLang = <<>>

\* the languages a payload flags true, in payload order
RECURSIVE TrueFlagged(_)
TrueFlagged(payload) ==
    IF payload = <<>> THEN <<>>
    ELSE (IF Head(payload).flag THEN <<Head(payload).lang>> ELSE <<>>)
         \o TrueFlagged(Tail(payload))

\* aff(l1), dic(l1), ..., aff(ln), dic(ln)
RECURSIVE ExpectedRequests(_)
ExpectedRequests(ls) ==
    IF ls = <<>> THEN <<>>
    ELSE <<Request("aff", Head(ls)), Request("dic", Head(ls))>>
         \o ExpectedRequests(Tail(ls))

IsPrefix(s, t) == Len(s) <= Len(t) /\ \A i \in DOMAIN s : s[i] = t[i]

\* the first node of a tree, in pre-order, with an identifier; Null when none
NodeWithId(h, tree) ==
    LET pre == Preorder(tree) IN
    IF \E i \in DOMAIN pre : pre[i].hash = h
    THEN pre[CHOOSE i \in DOMAIN pre :
                 pre[i].hash = h /\ \A j \in DOMAIN pre : pre[j].hash = h => i <= j]
    ELSE Null

\* the suggestions of the checkers from the i-th on, one after the other
RECURSIVE SuggestionsFrom(_, _)
SuggestionsFrom(word, i) ==
    IF i > Len(typo) THEN <<>>
    ELSE suggest(typo[i], word) \o SuggestionsFrom(word, i + 1)

----------------------------------------------------------------------------
(* Properties *)

\* C1: with a host that answers each request with the response of its type,
\* at most one affix or dictionary request is outstanding in every state, and
\* an affix request that follows another request follows a dictionary request
\* whose response has arrived and has been made into a checker by initTypo.
C1_OneOutstanding ==
    /\ Cardinality(Outstanding) <= 1
    /\ \A i \in DOMAIN sent :
         (sent[i].type = "aff" /\ i > 1 /\ sent[i - 1].type # "lang") =>
           /\ sent[i - 1].type = "dic"
           /\ i - 1 <= answered
           /\ \E k \in DOMAIN typo : typo[k].lang = sent[i - 1].lang
           /\ \E k \in DOMAIN typoLang :
                typoLang[k].lang = sent[i - 1].lang /\ typoLang[k].ready

\* C1 witness: the affix of a second language has been requested and is the
\* only outstanding request.
C1_Witness ==
    /\ Len(SpellRequests) = 3
    /\ SpellRequests[3].type = "aff"
    /\ SpellRequests[3].lang # SpellRequests[1].lang
    /\ Cardinality(Outstanding) = 1

\* C2: the affix and dictionary requests emitted are, in every state, the
\* first so many of aff(l1), dic(l1), ..., aff(ln), dic(ln) for the languages
\* l1..ln the typo-lang payload flags true, in payload order, and all of them
\* once typoReady is set; an outstanding request names the first language of
\* the map whose ready flag is false.
C2_RequestOrder ==
    /\ bodyLangs = Null => SpellRequests = <<>>
    /\ bodyLangs # Null =>
         LET expected == ExpectedRequests(TrueFlagged(bodyLangs.langs)) IN
         /\ IsPrefix(SpellRequests, expected)
         /\ typoReady => SpellRequests = expected
         /\ [i \in DOMAIN typoLang |-> typoLang[i].lang] = TrueFlagged(bodyLangs.langs)
    /\ \A i \in Outstanding :
         \E k \in DOMAIN typoLang :
            /\ typoLang[k].lang = sent[i].lang
            /\ ~typoLang[k].ready
            /\ \A j \in 1 .. k - 1 : typoLang[j].ready

\* C2 witness: two languages flagged true, one flagged false between them,
\* all four requests emitted and the pipeline ready.
C2_Witness ==
    /\ bodyLangs # Null
    /\ bodyLangs.langs =
         <<Entry("en_US", TRUE), Entry("fr_FR", FALSE), Entry("de_DE", TRUE)>>
    /\ typoReady
    /\ Len(SpellRequests) = 4

\* C3: a typo-aff or typo-dic message that arrives while the pipeline is idle
\* or ready, or that is not of the type awaited, changes nothing of the
\* pipeline, emits no request and does not raise.
C3_ViolationIsNoOp ==
    [][ ( /\ last'.command \in {"typo-aff", "typo-dic"}
          /\ \/ Idle
             \/ typoReady
             \/ last'.command = "typo-dic" /\ Awaiting = "aff"
             \/ last'.command = "typo-aff" /\ Awaiting = "dic" )
        => ( /\ UNCHANGED pipeline
             /\ sent' = sent
             /\ ~last'.raised ) ]_vars

\* C4: after a typo-lang message that flags no language true the ready flag
\* is set, the checker list is empty and no affix or dictionary request has
\* been emitted.
C4_NoLanguageIsReady ==
    (last.command = "typo-lang" /\ TrueFlagged(last.content) = <<>>) =>
        (typoReady /\ typo = <<>> /\ SpellRequests = <<>>)

\* C5: in every state, typoReady implies that every language of the map is
\* ready, and a language is ready only if an affix request and then a
\* dictionary request for it were emitted and answered and a checker for it
\* is in the list.
C5_ReadyMeansLoaded ==
    /\ typoReady => \A i \in DOMAIN typoLang : typoLang[i].ready
    /\ \A i \in DOMAIN typoLang :
         typoLang[i].ready =>
           /\ \E a, d \in 1 .. answered :
                /\ a < d
                /\ sent[a] = Request("aff", typoLang[i].lang)
                /\ sent[d] = Request("dic", typoLang[i].lang)
           /\ \E k \in DOMAIN typo : typo[k].lang = typoLang[i].lang

\* C6: typoCheck(word) is true for every word while typoReady is false; once
\* it is true, typoCheck(word) is true exactly when some checker of the list
\* accepts the word.
C6_TypoCheck ==
    \A w \in Words :
        typoCheck(w) = (IF ~typoReady THEN TRUE
                        ELSE \E i \in DOMAIN typo : check(typo[i], w))

\* C6 witness: ready with two checkers, a word only the second accepts and a
\* word none accepts.
C6_Witness ==
    /\ typoReady
    /\ Len(typo) = 2
    /\ \E w \in Words : ~check(typo[1], w) /\ check(typo[2], w) /\ typoCheck(w)
    /\ \E w \in Words : ~typoCheck(w)

\* C7: typoSuggest(word) is the empty sequence while typoReady is false; once
\* it is true, it is the suggestions of the checkers for the word, one checker
\* after the other in the order of the list.
C7_TypoSuggest ==
    \A w \in Words :
        typoSuggest(w) = (IF ~typoReady THEN <<>> ELSE SuggestionsFrom(w, 1))

\* C7 witness: ready with two checkers that suggest different words for a
\* word, the first checker's suggestion first.
C7_Witness ==
    /\ typoReady
    /\ Len(typo) = 2
    /\ \E w \in Words :
         /\ suggest(typo[1], w) # <<>>
         /\ suggest(typo[2], w) # <<>>
         /\ suggest(typo[1], w) # suggest(typo[2], w)
         /\ typoSuggest(w) = suggest(typo[1], w) \o suggest(typo[2], w)

\* C8: findObject(hash) over this.paths returns the first node in pre-order
\* with that identifier, null when there is none, and null without raising
\* when no tree has been received.
C8_FindObject ==
    \A h \in Hashes :
        findObject(h, paths) = (IF paths = Null THEN Null ELSE NodeWithId(h, paths))

\* C9: after a paths-update message with tree T2 the tree is T2; the current
\* file is the node of T2 with the identifier of the file that was current,
\* null when T2 has none or when no file was current; the current directory
\* is the node of T2 with the identifier of the directory that was current,
\* null when T2 has none, and the root of T2 when no directory was current.
C9_Resync ==
    last.command = "paths-update" =>
        /\ paths = last.content
        /\ currentFile = (IF last.file # Null
                          THEN NodeWithId(last.file.hash, last.content) ELSE Null)
        /\ currentDir = (IF last.dir # Null
                         THEN NodeWithId(last.dir.hash, last.content)
                         ELSE last.content)

\* C9 witness: a paths-update whose tree lacks the current file and holds the
\* current directory below its root.
C9_Witness ==
    /\ last.command = "paths-update"
    /\ last.file # Null
    /\ currentFile = Null
    /\ last.dir # Null
    /\ currentDir # Null
    /\ currentDir # paths

\* C10: a paths-update message delivered right after the same paths-update
\* message leaves the current file and the current directory as the first
\* delivery left them.
C10_Idempotent ==
    [][ ( /\ last.command = "paths-update"
          /\ last'.command = "paths-update"
          /\ last'.content = last.content )
        => ( currentFile' = currentFile /\ currentDir' = currentDir ) ]_vars

\* the languages of a map whose flag is true, in the order of the map, which
\* is the order in which the loop of initTypo makes them ready
ReadyLangs(map) ==
    LET ready == SelectSeq(map, LAMBDA e : e.ready)
    IN  [i \in DOMAIN ready |-> ready[i].lang]

\* the languages of the checker list, in the order of the list
CheckerLangs(list) == [i \in DOMAIN list |-> list[i].lang]

\* C15: once typoReady is true, no message changes the ready flag, the
\* language map or the checker list, and no affix or dictionary request is
\* emitted any more.
C15_ReadyIsInert ==
    [][ typoReady =>
          ( /\ typoReady'
            /\ typoLang' = typoLang
            /\ typo' = typo
            /\ SpellRequests' = SpellRequests ) ]_vars

\* C16: in every state the checker list has one entry per ready language of
\* the map, in the order they became ready, and every step only appends to
\* the list.
C16_OneCheckerPerReady ==
    /\ [](CheckerLangs(typo) = ReadyLangs(typoLang))
    /\ [][IsPrefix(typo, typo')]_vars

\* C17: in every state in which the pipeline is idle, awaits an affix file or
\* is ready, the pending affix and the pending dictionary are both null.
C17_PendingCleared ==
    (Idle \/ Awaiting = "aff" \/ typoReady) =>
        (typoAff = Null /\ typoDic = Null)

\* C20: after a typo-lang message that flags n >= 1 languages true, with a
\* host that answers every request, the pipeline eventually is ready with
\* those n languages ready, n checkers and exactly 2n affix and dictionary
\* requests emitted.
C20_LoadingCompletes ==
    (last.command = "typo-lang" /\ TrueFlagged(last.content) # <<>>)
    ~> ( /\ typoReady
         /\ bodyLangs # Null
         /\ ReadyLangs(typoLang) = TrueFlagged(bodyLangs.langs)
         /\ Len(typo) = Len(TrueFlagged(bodyLangs.langs))
         /\ Len(SpellRequests) = 2 * Len(TrueFlagged(bodyLangs.langs)) )

\* C11: a call with a tag that is no case label leaves the current file,
\* the current directory, the tree and the spell-check fields unchanged,
\* sends nothing and does not raise.
C11_UnknownIsNoOp ==
    [][ last'.command \in UnknownCommands =>
          ( /\ UNCHANGED <<currentFile, currentDir, paths>>
            /\ UNCHANGED pipeline
            /\ sent' = sent
            /\ last'.out = <<>>
            /\ ~last'.raised ) ]_vars

\* an unknown tag handled with a tree, an open file and a request pending
C11_Witness ==
    /\ last.command \in UnknownCommands
    /\ paths # Null
    /\ currentFile # Null
    /\ Outstanding # {}

\* C19: only paths and paths-update change the tree, and file-save leaves
\* the tree and the current file as they are.
C19_TreeIsReadOnly ==
    [][ /\ last'.command \notin {"paths", "paths-update"} => paths' = paths
        /\ last'.command = "file-save" => currentFile' = currentFile ]_vars

\* C12: a config message for a key whose config message has already toggled
\* the interface toggles neither the theme nor the snippet display again.
C12_ConfigTogglesOnce ==
    [][ ( /\ last'.command = "config"
          /\ last'.content.key \in configToggled )
        => ( darkTheme' = darkTheme /\ snippets' = snippets ) ]_vars

\* C13: no call of handleEvent raises, whatever the command, its content and
\* the state.
C13_NeverRaises == ~last.raised

\* C14: at every call of directories.refresh, preview.refresh and
\* directories.select made by the paths and paths-update cases, the tree the
\* collaborator reads is the one just received, and the current file and the
\* current directory are null or nodes of that tree.
C14_ResyncBeforeNotify ==
    last.command \in {"paths", "paths-update"} =>
        /\ last.notes # <<>>
        /\ \A i \in DOMAIN last.notes :
             /\ last.notes[i].paths = last.content
             /\ last.notes[i].paths = paths
             /\ \/ last.notes[i].currentFile = Null
                \/ last.notes[i].currentFile \in NodesOf(paths)
             /\ \/ last.notes[i].currentDir = Null
                \/ last.notes[i].currentDir \in NodesOf(paths)

\* a paths-update that found the current directory, a node of the replaced
\* tree only, again in the new tree
C14_Witness ==
    /\ last.command = "paths-update"
    /\ last.dir # Null
    /\ last.dir \notin NodesOf(paths)
    /\ currentDir # Null
    /\ last.notes[1].currentDir = currentDir

\* the tags of the spell-check messages
SpellcheckCommands == {"typo-lang", "typo-aff", "typo-dic"}

\* C18: while an affix or dictionary request is unanswered, a message with
\* any other tag leaves the ready flag, the language map, the pending data
\* and the checker list unchanged and sends no affix or dictionary request.
C18_OtherTagsKeepPipeline ==
    [][ ( /\ Outstanding # {}
          /\ last'.command \in (Commands \cup UnknownCommands) \ SpellcheckCommands )
        => ( /\ UNCHANGED pipeline
             /\ sent' = sent
             /\ Outstanding' = Outstanding
             /\ \A i \in DOMAIN last'.out :
                  last'.out[i].channel \notin
                      {"typo-request-aff", "typo-request-dic"} ) ]_vars

\* a file-save and a file-close handled while the dictionary is awaited
C18_Witness ==
    /\ Awaiting = "dic"
    /\ typoAff # Null
    /\ last.command \in {"file-save", "file-close"}
    /\ paths # Null

\* C21: a paths message with tree T, handled in any state, leaves T as the
\* tree, the root of T as the current directory and no current file, and
\* changes nothing of the spell-check fields.
C21_PathsInstalls ==
    [][ last'.command = "paths" =>
          ( /\ paths' = last'.content
            /\ currentDir' = last'.content
            /\ currentFile' = Null
            /\ UNCHANGED pipeline
            /\ sent' = sent ) ]_vars

\* a paths message handled with a file open, a directory other than the new
\* root current, and the dictionary awaited
C21_Witness ==
    /\ last.command = "paths"
    /\ last.file # Null
    /\ last.dir # Null
    /\ last.dir # paths
    /\ paths \in Trees
    /\ currentDir = paths
    /\ currentFile = Null
    /\ Awaiting = "dic"

====
